---- MODULE Spec2Model ----
(***************************************************************************)
(* Model of sandbox/inference_aifs_single-v1.py: the initial-condition     *)
(* field-assembly pipeline (DATE query, get_open_data for surface,         *)
(* pressure-level and soil fields, gh -> z conversion, soil renaming,      *)
(* input_state construction, runner.run, plot).                            *)
(*                                                                         *)
(* The open-data feed, the regridding library and the model runner are     *)
(* external.  The feed is the environment: a request may raise, and the    *)
(* reader it returns yields, one at a time and in any order, at most one   *)
(* field per (param, levelist) of the archive, each of either grid shape.  *)
(* A field may be present at one of the two dates and absent at the other. *)
(* The levelist of a field is always one of the levels asked for; for the  *)
(* soil request, whose keys are looked up in `mapping`, the param code of  *)
(* a field may also be one that was not asked for.                         *)
(*                                                                         *)
(* An uncaught exception ends the interpreter: the run stops for good and  *)
(* its mappings are gone; what was done before (requests issued, steps     *)
(* completed, runner invocations) stays on record.                         *)
(*                                                                         *)
(* Numbers are rationals [num, den]; a grid is its shape, the column at    *)
(* which source column 0 sits (origin) and the value it holds.             *)
(***************************************************************************)
EXTENDS Integers, Sequences, FiniteSets, TLC

VARIABLES
  pc,          \* position of the script
  err,         \* the exception that ended the run ("" while it runs)
  DATE,        \* line 64, 0 until the query has answered
  latestCalls, \* number of OpendataClient().latest() calls made
  requests,    \* every ekd.from_source call issued so far: <<call, date>>
  call,        \* which get_open_data call is running: "sfc", "pl", "soil"
  dateIdx,     \* index into [DATE - 6h, DATE] of the loop at line 69
  gfields,     \* get_open_data's local `fields` (name -> list of samples)
  sfc,         \* mapping returned by get_open_data(PARAM_SFC)
  pl,          \* mapping returned by get_open_data(PARAM_PL, LEVELS)
  soil,        \* line 104
  fields,      \* line 95
  input_state, \* line 115
  built,       \* number of times input_state was constructed
  runs,        \* number of runner.run invocations
  handed,      \* the mapping runner.run received
  steps,       \* the main-block steps completed so far, in order
  lastShape,   \* f.to_numpy().shape of the last field a reader yielded
  grid0,       \* roll check: the grid before any shift
  grid,        \* roll check: the grid after `rolls` shifts
  rolls        \* roll check: number of shifts applied

vars == <<pc, err, DATE, latestCalls, requests, call, dateIdx, gfields, sfc, pl,
          soil, fields, input_state, built, runs, handed, steps, lastShape,
          grid0, grid, rolls>>

pipeVars == <<pc, err, DATE, latestCalls, requests, call, dateIdx, gfields, sfc, pl,
              soil, fields, input_state, built, runs, handed, steps, lastShape>>

rollVars == <<grid0, grid, rolls>>

-----------------------------------------------------------------------------
(* Bounds of the model *)

\* number of entries of LEVELS (line 60) the model keeps
NLevels == 2

\* number of times the roll check applies the shift
MaxRolls == 2

-----------------------------------------------------------------------------
(* Constants of the script *)

PARAM_SFC == <<"10u", "10v", "2d", "2t", "msl", "skt", "sp", "tcw", "lsm", "z", "slor", "sdor">>

PARAM_SOIL == <<"vsw", "sot">>

PARAM_PL == <<"gh", "t", "u", "v", "w", "q">>

LEVELS_ALL == <<1000, 925, 850, 700, 600, 500, 400, 300, 250, 200, 150, 100, 50>>

LEVELS == SubSeq(LEVELS_ALL, 1, NLevels)

SOIL_LEVELS == <<1, 2>>

\* hours between the two dates of line 69
SIX_HOURS == 6

\* the shape asserted at line 72
EXPECTED_SHAPE == <<721, 1440>>

\* 9.80665 (line 102) as a rational
G_NUM == 980665

G_DEN == 100000

\* point count of the N320 reduced gaussian grid named at line 75
N_REDUCED == 542080

\* mutant of mapping: stl1 and stl2 exchanged
mappingExchanged == [k \in {"sot_1", "sot_2", "vsw_1", "vsw_2"} |->
                       CASE k = "sot_1" -> "stl2"
                         [] k = "sot_2" -> "stl1"
                         [] k = "vsw_1" -> "swvl1"
                         [] k = "vsw_2" -> "swvl2"]

\* the renaming table of lines 107-108
mapping == [k \in {"sot_1", "sot_2", "vsw_1", "vsw_2"} |->
              CASE k = "sot_1" -> "stl1"
                [] k = "sot_2" -> "stl2"
                [] k = "vsw_1" -> "swvl1"
                [] k = "vsw_2" -> "swvl2"]

-----------------------------------------------------------------------------
(* Helpers *)

Range(s) == {s[i] : i \in DOMAIN s}

EmptyDict == [k \in {} |-> 0]

\* dict.update
Update(d, e) == [k \in (DOMAIN d) \cup (DOMAIN e) |-> IF k \in DOMAIN e THEN e[k] ELSE d[k]]

\* dict without key k (dict.pop's effect on the dict)
Pop(d, k) == [j \in (DOMAIN d) \ {k} |-> d[j]]

Digits == <<"0", "1", "2", "3", "4", "5", "6", "7", "8", "9">>

\* str(int) of an f-string
RECURSIVE IntToStr(_)
IntToStr(n) == IF n < 10 THEN Digits[n + 1] ELSE IntToStr(n \div 10) \o Digits[(n % 10) + 1]

-----------------------------------------------------------------------------
(* The environment: analysis times and the fields of the open-data feed *)

\* the answer of OpendataClient().latest(), in hours: the 12 UTC analysis
LatestTimes == {12}

\* grid shapes a field of the feed may have: 0.25 degree and 0.5 degree
Shapes == {EXPECTED_SHAPE, <<361, 720>>}

\* param codes the archive holds fields of
ArchiveParams == {"2t", "gh", "vsw", "sot"}

\* arguments of the three get_open_data calls (lines 96, 98, 104)
ParamOf(c) == CASE c = "sfc" -> PARAM_SFC [] c = "pl" -> PARAM_PL [] c = "soil" -> PARAM_SOIL

LevelistOf(c) == CASE c = "sfc" -> <<>> [] c = "pl" -> LEVELS [] c = "soil" -> SOIL_LEVELS

\* <<param, levelist>> metadata of the fields that may answer a request;
\* levelist 0 stands for None.  A soil field may be decoded under a code that
\* was not asked for.
FeedKinds(c) ==
  LET ps == Range(ParamOf(c)) \cap ArchiveParams
      ls == IF LevelistOf(c) = <<>> THEN {0} ELSE Range(LevelistOf(c))
  IN  (ps \X ls) \cup (IF c = "soil" THEN {<<"unknown", 1>>} ELSE {})

ParamCode(p) == CASE p = "gh" -> 0 [] p = "sot" -> 1 [] p = "vsw" -> 2 [] p = "2t" -> 3 [] OTHER -> 4

\* what the archive holds for a field: a whole number, different for
\* different params, levels and dates
RawValue(p, l, d) == [num |-> 100 * ParamCode(p) + l + d, den |-> 1]

\* a GribField: its metadata and its to_numpy() grid; the grid carries the
\* date its data is valid for
Field(p, l, d, sh) ==
  [param |-> p, levelist |-> l, date |-> d,
   values |-> [shape |-> sh, origin |-> 0, date |-> d, val |-> RawValue(p, l, d)]]

-----------------------------------------------------------------------------
(* get_open_data, lines 66-84 *)

\* mutant of Dates: the six hours added instead of subtracted
DatesLater == <<DATE, DATE + 6>>

\* [DATE - datetime.timedelta(hours=6), DATE]
Dates == <<DATE - SIX_HOURS, DATE>>

\* mutant of HalfShift: half the row count instead of half the column count
HalfShiftRows(g) == (0 - g.shape[1]) \div 2

\* -f.shape[1] // 2
HalfShift(g) == (0 - g.shape[2]) \div 2

\* np.roll(a, shift, axis=1): column j moves to column (j + shift) mod width
Roll(g, shift) == [g EXCEPT !.origin = (g.origin + shift) % g.shape[2]]

\* ekr.interpolate(values, {"grid": (0.25, 0.25)}, {"grid": "N320"}): a 1-D
\* array of N_REDUCED points computed from the shifted grid
Interpolate(g) ==
  [npoints |-> N_REDUCED, from |-> g.shape, origin |-> g.origin, date |-> g.date, val |-> g.val]

\* the key of line 77
Name(f, levelist) ==
  IF levelist # <<>> THEN f.param \o "_" \o IntToStr(f.levelist) ELSE f.param

\* fields[name].append(values) on a defaultdict(list)
AppendTo(d, name, v) ==
  IF name \in DOMAIN d
    THEN [d EXCEPT ![name] = Append(@, v)]
    ELSE Update(d, [k \in {name} |-> <<v>>])

\* np.stack(values)
Stack(values) == [shape |-> <<Len(values), N_REDUCED>>, rows |-> values]

StackAll(d) == [k \in DOMAIN d |-> Stack(d[k])]

\* the variables holding the script's mappings
memory == <<gfields, sfc, pl, soil, fields, input_state>>

NoState == [date |-> 0, fields |-> EmptyDict]

\* an uncaught exception: the interpreter exits and its objects are gone
Raise(e) ==
  /\ pc' = "failed" /\ err' = e
  /\ gfields' = EmptyDict /\ sfc' = EmptyDict /\ pl' = EmptyDict /\ soil' = EmptyDict
  /\ fields' = EmptyDict /\ input_state' = NoState

\* the script goes on to position p
Goto(p) == pc' = p /\ err' = err

\* line 64: DATE = OpendataClient().latest()
QueryLatest ==
  /\ pc = "latest"
  /\ latestCalls' = latestCalls + 1
  /\ \/ \E t \in LatestTimes : DATE' = t /\ Goto("makedirs") /\ UNCHANGED memory
     \/ Raise("UpstreamError") /\ UNCHANGED DATE
  /\ UNCHANGED <<requests, call, dateIdx, built, runs, handed, steps, lastShape, rollVars>>

\* lines 92-95: os.makedirs(RESULTS_FOLDER, exist_ok=True), which may raise,
\* then fields = {}
MakeDirs ==
  /\ pc = "makedirs"
  /\ \/ Goto("call") /\ fields' = EmptyDict /\ UNCHANGED <<gfields, sfc, pl, soil, input_state>>
     \/ Raise("OSError")
  /\ UNCHANGED <<DATE, latestCalls, requests, call, dateIdx, built, runs, handed, steps,
                 lastShape, rollVars>>

\* line 67: fields = defaultdict(list), entering the loop of line 69
Call ==
  /\ pc = "call"
  /\ gfields' = EmptyDict
  /\ dateIdx' = 1
  /\ Goto("request")
  /\ UNCHANGED <<DATE, latestCalls, requests, call, sfc, pl, soil, fields, input_state,
                 built, runs, handed, steps, lastShape, rollVars>>

\* mutant of Request: a failed request is caught and issued again
RequestRetrying ==
  /\ pc = "request"
  /\ requests' = Append(requests, <<call, Dates[dateIdx]>>)
  /\ \/ Goto("iterate")
     \/ pc' = "request" /\ err' = "UpstreamError"
  /\ UNCHANGED <<DATE, latestCalls, call, dateIdx, memory, built, runs, handed, steps,
                 lastShape, rollVars>>

\* line 70: ekd.from_source("ecmwf-open-data", date=date, param=param, levelist=levelist)
Request ==
  /\ pc = "request"
  /\ requests' = Append(requests, <<call, Dates[dateIdx]>>)
  /\ \/ Goto("iterate") /\ UNCHANGED memory
     \/ Raise("UpstreamError")
  /\ UNCHANGED <<DATE, latestCalls, call, dateIdx, built, runs, handed, steps, lastShape,
                 rollVars>>

\* the fields of the current request not yet yielded
Pending ==
  {k \in FeedKinds(call) :
     LET name == Name([param |-> k[1], levelist |-> k[2]], LevelistOf(call))
     IN  \/ name \notin DOMAIN gfields
         \/ \A i \in DOMAIN gfields[name] : gfields[name][i].date # Dates[dateIdx]}

\* mutant of Process: the assert of line 72 left out
ProcessUnchecked(f) ==
  /\ gfields' = AppendTo(gfields, Name(f, LevelistOf(call)),
                         Interpolate(Roll(f.values, HalfShift(f.values))))
  /\ Goto("iterate")
  /\ UNCHANGED <<sfc, pl, soil, fields, input_state>>

\* lines 72-78 for one field f of the reader
Process(f) ==
  IF f.values.shape # EXPECTED_SHAPE
    THEN Raise("AssertionError")
    ELSE /\ gfields' = AppendTo(gfields, Name(f, LevelistOf(call)),
                                Interpolate(Roll(f.values, HalfShift(f.values))))
         /\ Goto("iterate")
         /\ UNCHANGED <<sfc, pl, soil, fields, input_state>>

\* lines 71-78: one iteration of `for f in data`
NextField ==
  /\ pc = "iterate"
  /\ \E k \in Pending, sh \in Shapes :
       /\ lastShape' = sh
       /\ Process(Field(k[1], k[2], Dates[dateIdx], sh))
  /\ UNCHANGED <<DATE, latestCalls, requests, call, dateIdx, built, runs, handed, steps,
                 rollVars>>

\* `for f in data` is exhausted: next date of line 69, or on to line 81
EndOfData ==
  /\ pc = "iterate"
  /\ IF dateIdx < Len(Dates)
       THEN dateIdx' = dateIdx + 1 /\ Goto("request")
       ELSE dateIdx' = dateIdx /\ Goto("return")
  /\ UNCHANGED <<DATE, latestCalls, requests, call, memory, built, runs, handed, steps,
                 lastShape, rollVars>>

\* lines 81-84, and what the caller does with the result (lines 96, 98, 104)
Return ==
  /\ pc = "return"
  /\ LET result == StackAll(gfields)
     IN  /\ gfields' = result
         /\ CASE call = "sfc" ->
                   /\ sfc' = result /\ fields' = Update(fields, result)
                   /\ call' = "pl" /\ Goto("call")
                   /\ UNCHANGED <<pl, soil>>
              [] call = "pl" ->
                   /\ pl' = result /\ fields' = Update(fields, result)
                   /\ call' = call /\ Goto("convert")
                   /\ UNCHANGED <<sfc, soil>>
              [] call = "soil" ->
                   /\ soil' = result
                   /\ call' = call /\ Goto("rename")
                   /\ UNCHANGED <<sfc, pl, fields>>
  /\ steps' = Append(steps, call)
  /\ UNCHANGED <<DATE, latestCalls, requests, dateIdx, input_state, built, runs, handed,
                 lastShape, rollVars>>

-----------------------------------------------------------------------------
(* The main block, lines 94-176 *)

GhKey(level) == "gh_" \o IntToStr(level)

ZKey(level) == "z_" \o IntToStr(level)

\* a number times 9.80665
TimesG(v) == [num |-> v.num * G_NUM, den |-> v.den * G_DEN]

\* gh * 9.80665 on a stacked array
ScaleByG(t) == [t EXCEPT !.rows = [i \in DOMAIN t.rows |-> [t.rows[i] EXCEPT !.val = TimesG(@)]]]

\* mutant of ConvertLevel: the gh entry read with [] instead of pop
ConvertLevelKeepingGh(d, level) ==
  Update(d, [k \in {"z_" \o IntToStr(level)} |->
               [d["gh_" \o IntToStr(level)] EXCEPT
                  !.rows = [i \in DOMAIN @ |-> [@[i] EXCEPT !.val = [num |-> @.num * G_NUM, den |-> @.den * G_DEN]]]]])

\* lines 101-102 for one level: gh = fields.pop(...); fields[z_level] = gh * 9.80665
ConvertLevel(d, level) ==
  Update(Pop(d, GhKey(level)), [k \in {ZKey(level)} |-> ScaleByG(d[GhKey(level)])])

\* the loop of line 100 over the first n levels
RECURSIVE ConvertLevels(_, _)
ConvertLevels(d, n) == IF n = 0 THEN d ELSE ConvertLevel(ConvertLevels(d, n - 1), LEVELS[n])

\* lines 100-102: fields.pop raises KeyError at the first level whose gh key
\* is missing
ConvertGH ==
  /\ pc = "convert"
  /\ IF \A i \in DOMAIN LEVELS : GhKey(LEVELS[i]) \in DOMAIN fields
       THEN /\ fields' = ConvertLevels(fields, Len(LEVELS))
            /\ Goto("call") /\ call' = "soil"
            /\ steps' = Append(steps, "convert")
            /\ UNCHANGED <<gfields, sfc, pl, soil, input_state>>
       ELSE Raise("KeyError") /\ UNCHANGED <<call, steps>>
  /\ UNCHANGED <<DATE, latestCalls, requests, dateIdx, built, runs, handed, lastShape,
                 rollVars>>

\* the entries the loop of lines 109-110 writes: fields[mapping[k]] = v
Renamed(d) == [n \in {mapping[k] : k \in DOMAIN d} |-> d[CHOOSE k \in DOMAIN d : mapping[k] = n]]

\* mutant of Rename: keys `mapping` lacks are skipped
RenameSkipping ==
  /\ pc = "rename"
  /\ fields' = Update(fields, [n \in {mapping[k] : k \in (DOMAIN soil) \cap (DOMAIN mapping)} |->
                                 soil[CHOOSE k \in (DOMAIN soil) \cap (DOMAIN mapping) : mapping[k] = n]])
  /\ Goto("state")
  /\ steps' = Append(steps, "rename")
  /\ UNCHANGED <<DATE, latestCalls, requests, call, dateIdx, gfields, sfc, pl, soil,
                 input_state, built, runs, handed, lastShape, rollVars>>

\* lines 107-110: mapping[k] raises KeyError on a key `mapping` lacks
Rename ==
  /\ pc = "rename"
  /\ IF DOMAIN soil \subseteq DOMAIN mapping
       THEN /\ fields' = Update(fields, Renamed(soil))
            /\ Goto("state")
            /\ steps' = Append(steps, "rename")
            /\ UNCHANGED <<gfields, sfc, pl, soil, input_state>>
       ELSE Raise("KeyError") /\ UNCHANGED steps
  /\ UNCHANGED <<DATE, latestCalls, requests, call, dateIdx, built, runs, handed,
                 lastShape, rollVars>>

\* line 115: input_state = dict(date=DATE, fields=fields)
BuildState ==
  /\ pc = "state"
  /\ input_state' = [date |-> DATE, fields |-> fields]
  /\ built' = built + 1
  /\ Goto("load")
  /\ steps' = Append(steps, "state")
  /\ UNCHANGED <<DATE, latestCalls, requests, call, dateIdx, gfields, sfc, pl, soil,
                 fields, runs, handed, lastShape, rollVars>>

\* lines 118-137: the checkpoint is loaded and the runner built; either may raise
LoadModel ==
  /\ pc = "load"
  /\ \/ Goto("run") /\ steps' = Append(steps, "load") /\ UNCHANGED memory
     \/ Raise("ModelError") /\ UNCHANGED steps
  /\ UNCHANGED <<DATE, latestCalls, requests, call, dateIdx, built, runs, handed,
                 lastShape, rollVars>>

\* lines 140-141: runner.run(input_state=input_state, lead_time=12)
Run ==
  /\ pc = "run"
  /\ runs' = runs + 1
  /\ handed' = input_state.fields
  /\ \/ Goto("plot") /\ steps' = Append(steps, "run") /\ UNCHANGED memory
     \/ Raise("ModelError") /\ UNCHANGED steps
  /\ UNCHANGED <<DATE, latestCalls, requests, call, dateIdx, built, lastShape, rollVars>>

\* mutant of Plot: the plotted run is repeated
PlotThenRunAgain ==
  /\ pc = "plot"
  /\ Goto("run")
  /\ steps' = Append(steps, "plot")
  /\ UNCHANGED <<DATE, latestCalls, requests, call, dateIdx, memory, built, runs, handed,
                 lastShape, rollVars>>

\* lines 143-176: the plot reads the last output state only; it may raise
Plot ==
  /\ pc = "plot"
  /\ \/ Goto("done") /\ steps' = Append(steps, "plot") /\ UNCHANGED memory
     \/ Raise("PlotError") /\ UNCHANGED steps
  /\ UNCHANGED <<DATE, latestCalls, requests, call, dateIdx, built, runs, handed, lastShape,
                 rollVars>>

-----------------------------------------------------------------------------
(* The run of the script *)

NoGrid == [shape |-> EXPECTED_SHAPE, origin |-> 0, date |-> 0, val |-> [num |-> 0, den |-> 1]]

Init ==
  /\ pc = "latest" /\ err = "" /\ DATE = 0 /\ latestCalls = 0
  /\ requests = <<>> /\ call = "sfc" /\ dateIdx = 1
  /\ gfields = EmptyDict /\ sfc = EmptyDict /\ pl = EmptyDict /\ soil = EmptyDict
  /\ fields = EmptyDict
  /\ input_state = NoState
  /\ built = 0 /\ runs = 0 /\ handed = EmptyDict /\ steps = <<>>
  /\ lastShape = <<0, 0>>
  /\ grid0 = NoGrid /\ grid = NoGrid /\ rolls = 0

Next ==
  \/ QueryLatest
  \/ MakeDirs
  \/ Call
  \/ Request
  \/ NextField
  \/ EndOfData
  \/ Return
  \/ ConvertGH
  \/ Rename
  \/ BuildState
  \/ LoadModel
  \/ Run
  \/ Plot

Spec == Init /\ [][Next]_vars

-----------------------------------------------------------------------------
(* The longitude shift of line 73 on its own: a 721x1440 grid holding a   *)
(* synthetic pattern, rotated to any column, is shifted again and again   *)

SyntheticGrids ==
  {[shape |-> EXPECTED_SHAPE, origin |-> o, date |-> 0, val |-> [num |-> 1, den |-> 1]] :
     o \in 0..(EXPECTED_SHAPE[2] - 1)}

InitRoll ==
  /\ pc = "latest" /\ err = "" /\ DATE = 0 /\ latestCalls = 0
  /\ requests = <<>> /\ call = "sfc" /\ dateIdx = 1
  /\ gfields = EmptyDict /\ sfc = EmptyDict /\ pl = EmptyDict /\ soil = EmptyDict
  /\ fields = EmptyDict
  /\ input_state = NoState
  /\ built = 0 /\ runs = 0 /\ handed = EmptyDict /\ steps = <<>>
  /\ lastShape = <<0, 0>>
  /\ grid0 \in SyntheticGrids /\ grid = grid0 /\ rolls = 0

\* line 73: values = np.roll(f.to_numpy(), -f.shape[1] // 2, axis=1)
ApplyRoll ==
  /\ rolls < MaxRolls
  /\ grid' = Roll(grid, HalfShift(grid))
  /\ rolls' = rolls + 1
  /\ UNCHANGED <<grid0, pipeVars>>

NextRoll == ApplyRoll

SpecRoll == InitRoll /\ [][NextRoll]_vars

-----------------------------------------------------------------------------
(* Properties *)

\* the mappings a get_open_data call has returned
Returned == {sfc, pl, soil}

\* every sample held anywhere in the run
Samples ==
  UNION {Range(gfields[k]) : k \in {j \in DOMAIN gfields : pc \in {"iterate", "request", "return"}}}
    \cup UNION {UNION {Range(d[k].rows) : k \in DOMAIN d} : d \in {sfc, pl, soil, fields, handed}}

\* keys of the form gh_<level>, sot_<level>, vsw_<level>
LeveledKeys(p) == {p \o "_" \o IntToStr(l) : l \in Range(LEVELS_ALL) \cup Range(SOIL_LEVELS)}

FullSteps == <<"sfc", "pl", "convert", "soil", "rename", "state", "load", "run", "plot">>

IsPrefix(a, b) == Len(a) <= Len(b) /\ a = SubSeq(b, 1, Len(a))

\* C1: once the loop of lines 100-102 has run, for every level L of LEVELS the
\* mapping has no key gh_L and has a key z_L holding the fetched gh_L array
\* with every value multiplied by 9.80665 (980665/100000); the mapping handed
\* to runner.run has no key of the form gh_<level>.
C1_GhReplacedByZ ==
  /\ ("convert" \in Range(steps) /\ pc # "failed") =>
       \A i \in DOMAIN LEVELS :
         LET gh == "gh_" \o IntToStr(LEVELS[i])
             z == "z_" \o IntToStr(LEVELS[i])
         IN  /\ gh \notin DOMAIN fields
             /\ gh \in DOMAIN pl
             /\ z \in DOMAIN fields
             /\ fields[z].shape = pl[gh].shape
             /\ DOMAIN fields[z].rows = DOMAIN pl[gh].rows
             /\ \A r \in DOMAIN pl[gh].rows :
                  fields[z].rows[r] =
                    [pl[gh].rows[r] EXCEPT !.val = [num |-> pl[gh].rows[r].val.num * 980665,
                                                    den |-> pl[gh].rows[r].val.den * 100000]]
  /\ runs >= 1 =>
       /\ (DOMAIN handed) \cap LeveledKeys("gh") = {}
       /\ \A i \in DOMAIN LEVELS : ("z_" \o IntToStr(LEVELS[i])) \in DOMAIN handed
       /\ pc # "failed" => handed = fields

\* C1 witness: the run ended with z_1000 holding two scaled rows
C1_Witness ==
  /\ pc = "done"
  /\ "z_1000" \in DOMAIN handed
  /\ handed["z_1000"].shape[1] = 2
  /\ handed["z_1000"].rows[2].val = [num |-> (1000 + DATE) * 980665, den |-> 100000]

\* C2: every array a get_open_data call returns has exactly two rows, row 0
\* the sample fetched for T-6h and row 1 the sample fetched for T.
C2_TwoRowsEarlierFirst ==
  \A d \in Returned : \A k \in DOMAIN d :
    /\ d[k].shape[1] = 2
    /\ Len(d[k].rows) = 2
    /\ d[k].rows[1].date = DATE - 6
    /\ d[k].rows[2].date = DATE

\* the part of C2 that holds whatever the feed yields: rows are in the order
\* of the requests, no T sample before a T-6h sample, and an array has the
\* two rows T-6h, T when both requests yielded the field
C2_RowsInRequestOrder ==
  \A d \in Returned : \A k \in DOMAIN d :
    /\ \A i, j \in DOMAIN d[k].rows : i < j => d[k].rows[i].date <= d[k].rows[j].date
    /\ {d[k].rows[i].date : i \in DOMAIN d[k].rows} = {DATE - 6, DATE} =>
         /\ d[k].shape[1] = 2 /\ d[k].rows[1].date = DATE - 6 /\ d[k].rows[2].date = DATE

\* C3: after the renaming loop, each of sot_1, sot_2, vsw_1, vsw_2 the soil
\* fetch returned is in the mapping as stl1, stl2, swvl1, swvl2 with the same
\* array, and the mapping has no sot_<level> or vsw_<level> key.
C3_SoilRenamed ==
  pc \in {"state", "load", "run", "plot", "done"} =>
    /\ "sot_1" \in DOMAIN soil => "stl1" \in DOMAIN fields /\ fields["stl1"] = soil["sot_1"]
    /\ "sot_2" \in DOMAIN soil => "stl2" \in DOMAIN fields /\ fields["stl2"] = soil["sot_2"]
    /\ "vsw_1" \in DOMAIN soil => "swvl1" \in DOMAIN fields /\ fields["swvl1"] = soil["vsw_1"]
    /\ "vsw_2" \in DOMAIN soil => "swvl2" \in DOMAIN fields /\ fields["swvl2"] = soil["vsw_2"]
    /\ (DOMAIN fields) \cap (LeveledKeys("sot") \cup LeveledKeys("vsw")) = {}

\* C3 witness: the run ended after a soil fetch that returned all four keys
C3_Witness ==
  /\ pc = "done"
  /\ DOMAIN soil = {"sot_1", "sot_2", "vsw_1", "vsw_2"}
  /\ {"stl1", "stl2", "swvl1", "swvl2"} \subseteq DOMAIN handed

\* C4: when the soil fetch has returned a key other than sot_1, sot_2, vsw_1,
\* vsw_2, the renaming step ends the run with KeyError before input_state is
\* built or the runner invoked; no such key is ever in the mapping.
C4_UnknownSoilKeyFails ==
  /\ [][(pc = "rename" /\ ~(DOMAIN soil \subseteq {"sot_1", "sot_2", "vsw_1", "vsw_2"})) =>
          (pc' = "failed" /\ err' = "KeyError" /\ built' = 0 /\ runs' = 0
            /\ fields' = EmptyDict /\ handed' = EmptyDict)]_vars
  /\ [](\A k \in (DOMAIN fields) \cup (DOMAIN handed) \cup (DOMAIN input_state.fields) :
          k \notin LeveledKeys("unknown"))
  /\ [](pc \in {"state", "load", "run", "plot", "done"} =>
          DOMAIN soil \subseteq {"sot_1", "sot_2", "vsw_1", "vsw_2"})

\* C4 witness: the run failed with KeyError right after the soil fetch returned
C4_Witness ==
  /\ pc = "failed" /\ err = "KeyError"
  /\ steps = <<"sfc", "pl", "convert", "soil">>
  /\ runs = 0

\* C5: a field whose grid is not 721x1440 ends the run at once with
\* AssertionError: the call in progress returns nothing, no request follows
\* and the runner is never invoked; every sample kept came from a 721x1440 grid.
C5_ShapeAsserted ==
  /\ [](lastShape \notin {<<0, 0>>, <<721, 1440>>} =>
          pc = "failed" /\ err = "AssertionError" /\ built = 0 /\ runs = 0)
  /\ [](\A x \in Samples : x.from = <<721, 1440>>)
  /\ [][lastShape' \notin {<<0, 0>>, <<721, 1440>>} =>
          (steps' = steps /\ requests' = requests /\ runs' = runs /\ pc' = "failed")]_vars
  /\ [][pc = "failed" => UNCHANGED vars]_vars

\* C5 witness: a 361x720 field of the second pressure-level request ended the run
C5_Witness ==
  /\ pc = "failed" /\ err = "AssertionError"
  /\ lastShape = <<361, 720>>
  /\ Len(requests) = 4
  /\ steps = <<"sfc">>

\* C6: a call with an empty level list keys its result by the param code, a
\* call with levels by param_level; the surface call's "2t" array has shape
\* (2, N_reduced).
C6_KeysAndShape ==
  /\ DOMAIN sfc \subseteq Range(PARAM_SFC)
  /\ DOMAIN pl \subseteq {q \o "_" \o IntToStr(l) : q \in Range(PARAM_PL), l \in Range(LEVELS)}
  /\ DOMAIN soil \subseteq
       {q \o "_" \o IntToStr(l) : q \in Range(PARAM_SOIL) \cup {"unknown"}, l \in Range(SOIL_LEVELS)}
  /\ "2t" \in DOMAIN sfc => sfc["2t"].shape = <<2, 542080>>

\* the part of C6 that holds whatever the feed yields: the keys, and as many
\* rows of N_reduced points as fields were yielded under the key
C6_KeysOnly ==
  /\ DOMAIN sfc \subseteq Range(PARAM_SFC)
  /\ DOMAIN pl \subseteq {q \o "_" \o IntToStr(l) : q \in Range(PARAM_PL), l \in Range(LEVELS)}
  /\ DOMAIN soil \subseteq
       {q \o "_" \o IntToStr(l) : q \in Range(PARAM_SOIL) \cup {"unknown"}, l \in Range(SOIL_LEVELS)}
  /\ \A d \in Returned : \A k \in DOMAIN d :
       /\ d[k].shape = <<Len(d[k].rows), 542080>>
       /\ \A i \in DOMAIN d[k].rows : d[k].rows[i].npoints = 542080

\* C7: latest() is called once; every request carries T-6h or T of that T,
\* T-6h before T within each get_open_data call; input_state's date is T.
C7_OneReferenceTime ==
  /\ latestCalls <= 1
  /\ pc # "latest" => latestCalls = 1
  /\ \A i \in DOMAIN requests : requests[i][2] \in {DATE - 6, DATE}
  /\ \A c \in {"sfc", "pl", "soil"} :
       LET mine == SelectSeq(requests, LAMBDA r : r[1] = c)
       IN  IsPrefix([i \in DOMAIN mine |-> mine[i][2]], <<DATE - 6, DATE>>)
  /\ built >= 1 /\ pc # "failed" => input_state.date = DATE
  /\ pc # "latest" /\ err # "UpstreamError" => DATE \in LatestTimes

\* C7 witness: the run ended after six requests, two per call
C7_Witness ==
  /\ pc = "done"
  /\ Len(requests) = 6
  /\ requests[5] = <<"soil", DATE - 6>> /\ requests[6] = <<"soil", DATE>>
  /\ input_state.date = DATE

\* C8: when latest() or a request fails the run ends: the request is not
\* issued again, nothing is requested after it, no mapping survives and the
\* runner is never invoked.
C8_UpstreamFailureEndsRun ==
  /\ [](err = "UpstreamError" =>
          /\ pc = "failed" /\ built = 0 /\ runs = 0
          /\ fields = EmptyDict /\ input_state = NoState /\ handed = EmptyDict)
  /\ [](\A i, j \in DOMAIN requests : i # j => requests[i] # requests[j])
  /\ [](latestCalls <= 1)
  /\ [][err = "UpstreamError" => UNCHANGED <<requests, latestCalls, runs, built>>]_vars

\* C8 witness: the third request failed
C8_Witness ==
  /\ pc = "failed" /\ err = "UpstreamError"
  /\ Len(requests) = 3
  /\ runs = 0

\* C9: the shift of line 73 moves every column of a 721x1440 grid by 720 of
\* its 1440 columns, and two shifts give the grid back.
C9_HalfTurnTwiceIsIdentity ==
  /\ rolls = 1 => grid = [grid0 EXCEPT !.origin = (grid0.origin + 720) % 1440]
  /\ rolls = 2 => grid = grid0

\* C9 witness: a grid rotated to column 5 has been shifted twice
C9_Witness == rolls = 2 /\ grid0.origin = 5 /\ grid0.shape = <<721, 1440>>

\* C10: the steps run in one fixed order; input_state is built once and
\* runner.run invoked at most once, after the surface fetch, the
\* pressure-level fetch, the conversion, the soil fetch and the renaming; the
\* mapping is the one handed over and is not changed afterwards.
C10_LinearControlFlow ==
  /\ IsPrefix(steps, FullSteps)
  /\ built <= 1 /\ runs <= 1
  /\ built = (IF "state" \in Range(steps) THEN 1 ELSE 0)
  /\ runs >= 1 => IsPrefix(<<"sfc", "pl", "convert", "soil", "rename", "state", "load">>, steps)
  /\ pc \in {"plot", "done"} => runs = 1 /\ fields = handed /\ input_state.fields = handed

\* C10 witness: the run ended after one invocation of the runner
C10_Witness == pc = "done" /\ runs = 1 /\ built = 1 /\ steps = FullSteps

====
